---- MODULE Spec2Model ----
(***************************************************************************)
(* Contact-submission pipeline of the portfolio backend (server.js):       *)
(* CORS -> body parser -> contactLimiter -> validation chain -> handler    *)
(* (transporter check, spam check, notification send, auto-reply send,     *)
(* response) -> global error handler.                                      *)
(*                                                                         *)
(* Text is a sequence of one-character strings.  Node runs each callback   *)
(* to completion, so every action below is one synchronous stretch of      *)
(* code: the middleware chain up to the first await, or the continuation   *)
(* of a settled promise.                                                   *)
(***************************************************************************)
EXTENDS Integers, Sequences, FiniteSets, TLC

\* ------------------------------------------------------------------ bounds
\* concurrent request slots (a finished slot is reused by a later request)
MaxInFlight == 2
\* client addresses
NumAddrs == 2
\* length of the limiter window, in clock ticks (windowMs = 15 * 60 * 1000)
WindowTicks == 2
\* requests accepted from one address beyond the cap, per window
MaxOver == 1
\* the probes of the field rules: whitespace put around a text, and the
\* lengths tried from 0 up (the lengths around each limit are tried too)
MaxPad == 1
MaxShort == 12
\* the longest email address tried
MaxEmailLen == 7
\* the longest text given to the sanitizer
MaxSanLen == 3
\* the health requests of an address where they come along with other requests
MaxApiHits == 3
\* the project cards of the page, and the hide timers pending at a time
NumCards == 2
MaxTimers == 3

\* ------------------------------------------------------- program constants
RATE_LIMIT_MAX == 5
\* apiLimiter's max
ApiMax == 100
NameMin == 2
NameMax == 100
EmailMax == 254
SubjectMax == 200
MessageMin == 10
MessageMax == 5000

Slots == 1..MaxInFlight
Addrs == 1..NumAddrs
\* the clock runs one tick past the first window
MaxTime == WindowTicks + 1

\* -------------------------------------------------------------------- text
Whitespace == {" ", "\n", "\t"}

RECURSIVE TrimLeft(_)
TrimLeft(s) ==
    IF s # <<>> /\ Head(s) \in Whitespace THEN TrimLeft(Tail(s)) ELSE s

RECURSIVE TrimRight(_)
TrimRight(s) ==
    IF s # <<>> /\ s[Len(s)] \in Whitespace
    THEN TrimRight(SubSeq(s, 1, Len(s) - 1)) ELSE s

\* String.prototype.trim / express-validator .trim()
Trim(s) == TrimRight(TrimLeft(s))

UpperLetters ==
    <<"A", "B", "C", "D", "E", "F", "G", "H", "I", "J", "K", "L", "M",
      "N", "O", "P", "Q", "R", "S", "T", "U", "V", "W", "X", "Y", "Z">>
LowerLetters ==
    <<"a", "b", "c", "d", "e", "f", "g", "h", "i", "j", "k", "l", "m",
      "n", "o", "p", "q", "r", "s", "t", "u", "v", "w", "x", "y", "z">>

\* String.prototype.toLowerCase, on the letters A to Z
LowerChar(c) ==
    IF \E i \in 1..Len(UpperLetters) : UpperLetters[i] = c
    THEN LowerLetters[CHOOSE i \in 1..Len(UpperLetters) : UpperLetters[i] = c]
    ELSE c

toLowerCase(s) == [i \in 1..Len(s) |-> LowerChar(s[i])]

\* String.prototype.includes
includes(s, k) ==
    \E i \in 1..(Len(s) - Len(k) + 1) : SubSeq(s, i, i + Len(k) - 1) = k

RECURSIVE Flatten(_)
Flatten(ss) == IF ss = <<>> THEN <<>> ELSE Head(ss) \o Flatten(Tail(ss))

\* express-validator .escape(): & < > " ' / become HTML entities
EscapeChar(c) ==
    CASE c = "&" -> <<"&", "a", "m", "p", ";">>
      [] c = "<" -> <<"&", "l", "t", ";">>
      [] c = ">" -> <<"&", "g", "t", ";">>
      [] c = "\"" -> <<"&", "q", "u", "o", "t", ";">>
      [] c = "'" -> <<"&", "#", "x", "2", "7", ";">>
      [] c = "/" -> <<"&", "#", "x", "2", "F", ";">>
      [] OTHER -> <<c>>

escape(s) == Flatten([i \in 1..Len(s) |-> EscapeChar(s[i])])

Count(s, c) == Cardinality({i \in 1..Len(s) : s[i] = c})

LastIndexOf(s, c) ==
    IF Count(s, c) = 0 THEN 0
    ELSE CHOOSE i \in 1..Len(s) :
            s[i] = c /\ \A j \in (i + 1)..Len(s) : s[j] # c


\* ------------------------------------------------------------- submissions
\* a field the request body does not carry
Undefined == <<"undefined">>

\* express-validator's toString of a field value
toString(v) == IF v = Undefined THEN <<>> ELSE v

\* the request bodies the clients send (name, email, subject, message)
Submissions == <<
    [name    |-> <<"J", "o">>,
     email   |-> <<"j", "o", "@", "x", ".", "c", "o", "m">>,
     subject |-> Undefined,
     message |-> <<"1", "2", "3", "4", "5", "6", "7", "8", "9", "0">>],
    [name    |-> <<"J", "o">>,
     email   |-> <<"J", "o", "@", "x", ".", "c", "o", "m">>,
     subject |-> <<"H", "i">>,
     message |-> <<" ", "F", "r", "e", "e", " ", "m", "o", "n", "e", "y">>],
    [name    |-> <<"J">>,
     email   |-> <<"j", "o", "@", "x", ".", "c", "o", "m">>,
     subject |-> Undefined,
     message |-> <<"1", "2", "3", "4", "5", "6", "7", "8", "9", "0">>],
    [name    |-> <<" ">>,
     email   |-> <<"j", "o">>,
     subject |-> Undefined,
     message |-> <<"c", "r", "y", "p", "t", "o">>],
    [name    |-> <<"A", "l", "'", "s">>,
     email   |-> <<" ", "A", "l", "@", "Y", ".", "o", "r", "g">>,
     subject |-> <<"H", "i">>,
     message |-> <<"0", "9", "8", "7", "6", "5", "4", "3", "2", "1">>]
>>

SubIds == 1..Len(Submissions)

\* the two submissions that are sent, for requests in flight side by side; the
\* pipeline's requests carry the others and the first of these
MailSubs == {1, 5}
PipelineSubs == SubIds \ {5}

\* --------------------------------------------------------------- sanitizer
\* the four replace calls of sanitizeInput, character by character
ReplaceChar(c) ==
    CASE c = "<" -> <<"<">>
      [] c = ">" -> <<">">>
      [] c = "\"" -> <<"\"">>
      [] c = "'" -> <<"&", "#", "x", "2", "7", ";">>
      [] OTHER -> <<c>>

\* sanitizeInput(input): a value that is no string is returned as it is
sanitizeInput(input) ==
    IF input = Undefined THEN input
    ELSE Trim(Flatten([i \in 1..Len(input) |-> ReplaceChar(input[i])]))

\* -------------------------------------------------------- validation chain
\* variant: the upper limit is exclusive
isLengthBelowMax(s, min, max) == Len(s) >= min /\ Len(s) < max

isLength(s, min, max) == Len(s) >= min /\ Len(s) <= max

\* the characters of the model's texts that validator.js allows neither in an
\* unquoted user part nor in a domain label
UserSpecials == Whitespace \cup {"@", "\"", "<", ">", "\\"}
LabelSpecials == UserSpecials \cup {"'", "&", "/"}
Digits == {"0", "1", "2", "3", "4", "5", "6", "7", "8", "9"}

\* s.split('.') has no empty part
NoEmptyPart(s) ==
    /\ s # <<>>
    /\ s[1] # "." /\ s[Len(s)] # "."
    /\ \A i \in 1..(Len(s) - 1) : ~(s[i] = "." /\ s[i + 1] = ".")

\* variant: a domain without a dot is accepted (require_tld: false)
isFQDNNoTld(domain) ==
    /\ NoEmptyPart(domain)
    /\ \A i \in 1..Len(domain) : domain[i] \notin LabelSpecials

\* validator.js isFQDN with its default options: labels of letters, digits and
\* hyphens, at least two of them, the last of 2+ characters that are no digits
isFQDN(domain) ==
    LET dot == LastIndexOf(domain, ".")
    IN  /\ NoEmptyPart(domain)
        /\ \A i \in 1..Len(domain) : domain[i] \notin LabelSpecials
        /\ dot > 0
        /\ Len(domain) - dot >= 2
        /\ \A i \in (dot + 1)..Len(domain) : domain[i] \notin Digits

\* validator.js isEmail with its default options: the domain is what follows
\* the last "@" and must be a FQDN; a user part that starts with a double
\* quote loses its first and last character and may then hold anything but
\* double quotes and backslashes; any other user part is dot-separated atoms
isEmail(s) ==
    LET at     == LastIndexOf(s, "@")
        user   == SubSeq(s, 1, at - 1)
        domain == SubSeq(s, at + 1, Len(s))
        inner  == SubSeq(user, 2, Len(user) - 1)
    IN  /\ Len(s) <= 254 /\ Len(user) <= 64
        /\ isFQDN(domain)
        /\ IF user # <<>> /\ user[1] = "\""
           THEN \A i \in 1..Len(inner) : inner[i] \notin {"\"", "\\"}
           ELSE /\ NoEmptyPart(user)
                /\ \A i \in 1..Len(user) : user[i] \notin UserSpecials

\* validator.js normalizeEmail: lower-cases the address
normalizeEmail(s) == toLowerCase(s)

Err(field, msg) == [field |-> field, message |-> msg]

\* variant: a name of one character is accepted
NameErrorsMinOne(raw) ==
    LET v == Trim(toString(raw))
    IN  (IF v = <<>> THEN <<Err("name", "Name is required")>> ELSE <<>>)
        \o (IF ~isLength(v, 1, NameMax)
            THEN <<Err("name", "Name must be between 2 and 100 characters")>>
            ELSE <<>>)

\* body('name').trim().notEmpty().isLength({min: 2, max: 100}).escape()
NameErrors(raw) ==
    LET v == Trim(toString(raw))
    IN  (IF v = <<>> THEN <<Err("name", "Name is required")>> ELSE <<>>)
        \o (IF ~isLength(v, NameMin, NameMax)
            THEN <<Err("name", "Name must be between 2 and 100 characters")>>
            ELSE <<>>)

\* body('email').trim().notEmpty().isEmail().normalizeEmail().isLength({max: 254})
EmailErrors(raw) ==
    LET v == Trim(toString(raw))
    IN  (IF v = <<>> THEN <<Err("email", "Email is required")>> ELSE <<>>)
        \o (IF ~isEmail(v)
            THEN <<Err("email", "Please provide a valid email address")>>
            ELSE <<>>)
        \o (IF isEmail(v) /\ ~isLength(normalizeEmail(v), 0, EmailMax)
            THEN <<Err("email", "Email is too long")>>
            ELSE <<>>)

\* body('subject').optional().trim().isLength({max: 200}).escape()
SubjectErrors(raw) ==
    IF raw = Undefined THEN <<>>
    ELSE IF ~isLength(Trim(raw), 0, SubjectMax)
         THEN <<Err("subject", "Subject must be less than 200 characters")>>
         ELSE <<>>

\* variant: the message is measured untrimmed
MessageErrorsNoTrim(raw) ==
    LET v == toString(raw)
    IN  (IF v = <<>> THEN <<Err("message", "Message is required")>> ELSE <<>>)
        \o (IF ~isLength(v, MessageMin, MessageMax)
            THEN <<Err("message", "Message must be between 10 and 5000 characters")>>
            ELSE <<>>)

\* body('message').trim().notEmpty().isLength({min: 10, max: 5000}).escape()
MessageErrors(raw) ==
    LET v == Trim(toString(raw))
    IN  (IF v = <<>> THEN <<Err("message", "Message is required")>> ELSE <<>>)
        \o (IF ~isLength(v, MessageMin, MessageMax)
            THEN <<Err("message", "Message must be between 10 and 5000 characters")>>
            ELSE <<>>)

\* variant: the chains stop at the first field that has an error
validationResultFirstField(sub) ==
    IF NameErrors(sub.name) # <<>> THEN NameErrors(sub.name)
    ELSE IF EmailErrors(sub.email) # <<>> THEN EmailErrors(sub.email)
    ELSE IF SubjectErrors(sub.subject) # <<>> THEN SubjectErrors(sub.subject)
    ELSE MessageErrors(sub.message)

\* validationResult(req).array(): the errors of the four chains, in order
validationResult(sub) ==
    NameErrors(sub.name) \o EmailErrors(sub.email)
        \o SubjectErrors(sub.subject) \o MessageErrors(sub.message)

\* req.body after the sanitizers of the four chains have run
SanitizedBody(sub) ==
    [name    |-> escape(Trim(toString(sub.name))),
     email   |-> normalizeEmail(Trim(toString(sub.email))),
     subject |-> IF sub.subject = Undefined THEN Undefined
                 ELSE escape(Trim(sub.subject)),
     message |-> escape(Trim(toString(sub.message)))]

\* the two, for each submission the clients send
errorsOf == [s \in SubIds |-> validationResult(Submissions[s])]
bodyOf == [s \in SubIds |-> SanitizedBody(Submissions[s])]

\* ----------------------------------------------------------- mail composer
\* a JavaScript value that is neither undefined nor the empty string
Truthy(v) == v # Undefined /\ v # <<>>

\* String.prototype.replace(/\n/g, '<br>')
nl2br(s) == [i \in 1..Len(s) |-> IF s[i] = "\n" THEN "<br>" ELSE s[i]]

\* variant: the email address is put into the link as it came
generateEmailTemplateRawEmail(data) ==
    [name      |-> sanitizeInput(data.name),
     emailHref |-> data.email,
     emailText |-> sanitizeInput(data.email),
     subject   |-> sanitizeInput(IF Truthy(data.subject) THEN data.subject
                                 ELSE <<"No subject">>),
     message   |-> nl2br(sanitizeInput(data.message))]

\* generateEmailTemplate(data): the values interpolated into the markup
generateEmailTemplate(data) ==
    [name      |-> sanitizeInput(data.name),
     emailHref |-> sanitizeInput(data.email),
     emailText |-> sanitizeInput(data.email),
     subject   |-> sanitizeInput(IF Truthy(data.subject) THEN data.subject
                                 ELSE <<"No subject">>),
     message   |-> nl2br(sanitizeInput(data.message))]

\* generateAutoReplyTemplate(name): the value interpolated into the markup
generateAutoReplyTemplate(name) == [name |-> sanitizeInput(name)]

\* variant: only a subject that is undefined is replaced (?? for ||)
mailOptionsNullish(body) ==
    [to      |-> "CONTACT_EMAIL",
     replyTo |-> body.email,
     subject |-> <<"Portfolio Contact: ">>
                   \o (IF body.subject # Undefined THEN body.subject
                       ELSE <<"New message from ">> \o body.name),
     html    |-> generateEmailTemplate(body)]

\* mailOptions of the handler, built from the fields of req.body
mailOptions(body) ==
    [to      |-> "CONTACT_EMAIL",
     replyTo |-> body.email,
     subject |-> <<"Portfolio Contact: ">>
                   \o (IF Truthy(body.subject) THEN body.subject
                       ELSE <<"New message from ">> \o body.name),
     html    |-> generateEmailTemplate(body)]

\* autoReplyOptions of the handler
autoReplyOptions(body) ==
    [to      |-> body.email,
     subject |-> <<"Thank you for contacting me!">>,
     html    |-> generateAutoReplyTemplate(body.name)]

\* what the dispatcher is given of the two messages
NotifSent(body) ==
    [to |-> mailOptions(body).to, replyTo |-> mailOptions(body).replyTo]
AckSent(body) ==
    [to |-> autoReplyOptions(body).to, greets |-> autoReplyOptions(body).html.name]

\* -------------------------------------------------------------- spam check
spamKeywords == {
    <<"c", "a", "s", "i", "n", "o">>,
    <<"l", "o", "t", "t", "e", "r", "y">>,
    <<"w", "i", "n", "n", "e", "r">>,
    <<"c", "l", "i", "c", "k", " ", "h", "e", "r", "e">>,
    <<"f", "r", "e", "e", " ", "m", "o", "n", "e", "y">>,
    <<"v", "i", "a", "g", "r", "a">>,
    <<"c", "r", "y", "p", "t", "o">> }

\* variant: the message is matched without being lower-cased
containsSpamCaseSensitive(message) ==
    \E keyword \in spamKeywords : includes(message, keyword)

\* variant: a keyword counts only where no letter precedes or follows it
containsSpamWholeWord(message) ==
    LET messageLower == toLowerCase(message)
        Letter(i) == i >= 1 /\ i <= Len(messageLower)
                       /\ \E k \in 1..Len(LowerLetters) : LowerLetters[k] = messageLower[i]
    IN  \E keyword \in spamKeywords :
          \E i \in 1..(Len(messageLower) - Len(keyword) + 1) :
             /\ SubSeq(messageLower, i, i + Len(keyword) - 1) = keyword
             /\ ~Letter(i - 1) /\ ~Letter(i + Len(keyword))

containsSpam(message) ==
    LET messageLower == toLowerCase(message)
    IN  \E keyword \in spamKeywords : includes(messageLower, keyword)


\* ------------------------------------------------------------------- state
VARIABLES
    now,            \* the clock, in ticks
    NODE_ENV,       \* "development" or "production", fixed at startup
    transporter,    \* "null" or "transport": the value createTransporter() returned
    contactStore,   \* contactLimiter's memory store: address -> hits, reset time
    tally,          \* per address and window: requests handed on / answered 429
    reqs,           \* the requests in flight (a new one takes the first idle slot)
    last,           \* the request that was over most recently
    apiStore,       \* apiLimiter's memory store: address -> hits, reset time
    lastApi,        \* the last request that was not a POST to /api/contact
    probe,          \* the last application of a pure function: input and result
    admitted,       \* per address and window (by its reset time): requests the
                    \* contact limiter handed on, counted where the limiter's
                    \* own steps are told apart
    verified,       \* transporter.verify: "none" (not called), "pending", "ok", "failed"
    gallery,        \* the page: the active filter, the cards, the pending hide timers
    form            \* the page: the submit button, the request and the timer pending

vars == <<now, NODE_ENV, transporter, contactStore, tally, reqs, last,
          apiStore, lastApi, probe, admitted, verified, gallery, form>>

\* the page's state
page == <<gallery, form>>

\* what the requests leave alone
aside == <<verified, page>>

\* what the contact pipeline leaves alone
others == <<apiStore, lastApi, probe, admitted, aside>>

Origins == {"none", "listed", "localhost", "foreign"}
MsgIds == {"id1", "id2"}
ErrCodes == {"EAUTH", "ECONNECTION", "ETIMEDOUT", "EENVELOPE"}

\* res.status(status).json({success, code, details, messageId})
Resp(status, code, details, messageId) ==
    [status |-> status, success |-> (status = 200), code |-> code,
     details |-> details, messageId |-> messageId]

NoResp == Resp(0, "", <<>>, "")

IdleReq ==
    [phase |-> "idle", addr |-> 0, sub |-> 0, corsOk |-> FALSE, parsed |-> FALSE,
     over |-> FALSE, handled |-> FALSE, resp |-> NoResp, nResp |-> 0,
     nNotif |-> 0, nAck |-> 0, notif |-> "none", err |-> "", info |-> "",
     ack |-> "none", logged |-> 0, hits |-> 0, win |-> 0,
     notifMail |-> [to |-> "", replyTo |-> <<>>],
     ackMail |-> [to |-> <<>>, greets |-> <<>>]]

\* ------------------------------------------------------------ configuration
\* createTransporter(): null unless SMTP_HOST, SMTP_USER and SMTP_PASS are set
createTransporter(host, user, pass) ==
    IF ~host \/ ~user \/ ~pass THEN "null" ELSE "transport"

\* corsOptions.origin: TRUE when the callback is given (null, true)
CorsAllows(env, origin) ==
    IF origin = "none" THEN TRUE
    ELSE IF env = "development" /\ origin \in {"localhost", "listed"} THEN TRUE
    ELSE origin = "listed"

\* variant: a failed verification takes the transporter away
VerifyCallbackDisables(tr, error) == IF error THEN "null" ELSE tr

\* transporter.verify's callback: it logs, and leaves the transporter
VerifyCallback(tr, error) == tr

\* ------------------------------------------------------------ rate limiter
\* variant: the hits of an elapsed window are carried into the next one
IncrementNoReset(store, a, t) ==
    IF store[a].totalHits = 0 \/ store[a].resetTime <= t
    THEN [store EXCEPT ![a] = [totalHits |-> store[a].totalHits + 1,
                               resetTime |-> t + WindowTicks]]
    ELSE [store EXCEPT ![a].totalHits = @ + 1]

\* variant: one counter for all addresses
IncrementAnyKey(store, a, t) ==
    [k \in DOMAIN store |->
        IF store[k].totalHits = 0 \/ store[k].resetTime <= t
        THEN [totalHits |-> 1, resetTime |-> t + WindowTicks]
        ELSE [store[k] EXCEPT !.totalHits = @ + 1]]

\* the memory store's increment: a fixed window per key
Increment(store, a, t) ==
    IF store[a].totalHits = 0 \/ store[a].resetTime <= t
    THEN [store EXCEPT ![a] = [totalHits |-> 1, resetTime |-> t + WindowTicks]]
    ELSE [store EXCEPT ![a].totalHits = @ + 1]

\* variant: skipFailedRequests, a response of status 400 and more gives the
\* hit back
AfterResponseSkipFailed(store, a, status) ==
    IF status >= 400 /\ store[a].totalHits > 0
    THEN [store EXCEPT ![a].totalHits = @ - 1]
    ELSE store

\* the limiter when the response is finished: skipFailedRequests and
\* skipSuccessfulRequests are not set, the hit stays
AfterResponse(store, a, status) == store

\* variant: the request that reaches max is refused already
LimiterDeniesAtMax(totalHits, max) == totalHits >= max

\* rateLimit({max}): the request is refused once the hits exceed max
LimiterDenies(totalHits, max) == totalHits > max

RateLimitResponse == Resp(429, "RATE_LIMIT_EXCEEDED", <<>>, "")

\* ---------------------------------------------------- global error handler
\* variant: without the generic branch an error keeps its own status and is
\* answered by the framework's default page
errorHandlerNoGeneric(message, status) ==
    IF message = "Not allowed by CORS" THEN Resp(403, "CORS_ERROR", <<>>, "")
    ELSE IF status = 429 THEN Resp(429, "RATE_LIMIT_EXCEEDED", <<>>, "")
    ELSE Resp(status, "", <<>>, "")

errorHandler(message, status) ==
    IF message = "Not allowed by CORS" THEN Resp(403, "CORS_ERROR", <<>>, "")
    ELSE IF status = 429 THEN Resp(429, "RATE_LIMIT_EXCEEDED", <<>>, "")
    ELSE Resp(500, "INTERNAL_ERROR", <<>>, "")

\* ---------------------------------------------------------- contact handler
\* variant: the spam check runs before the transporter check
ContactGatesSpamFirst(errors, tr, body) ==
    IF errors # <<>> THEN Resp(400, "VALIDATION_ERROR", errors, "")
    ELSE IF containsSpam(body.message) THEN Resp(400, "SPAM_DETECTED", <<>>, "")
    ELSE IF tr = "null" THEN Resp(503, "SERVICE_UNAVAILABLE", <<>>, "")
    ELSE NoResp

\* variant: the transporter is checked before the validation result
ContactGatesTransporterFirst(errors, tr, body) ==
    IF tr = "null" THEN Resp(503, "SERVICE_UNAVAILABLE", <<>>, "")
    ELSE IF errors # <<>> THEN Resp(400, "VALIDATION_ERROR", errors, "")
    ELSE IF containsSpam(body.message) THEN Resp(400, "SPAM_DETECTED", <<>>, "")
    ELSE NoResp

\* the handler up to its first await: the response of the gate that rejects,
\* or NoResp when the notification is handed to the dispatcher
ContactGates(errors, tr, body) ==
    IF errors # <<>> THEN Resp(400, "VALIDATION_ERROR", errors, "")
    ELSE IF tr = "null" THEN Resp(503, "SERVICE_UNAVAILABLE", <<>>, "")
    ELSE IF containsSpam(body.message) THEN Resp(400, "SPAM_DETECTED", <<>>, "")
    ELSE NoResp

\* variant: the 200 is sent only when the auto-reply has settled
SuccessPathAwaitsAck(q, id) ==
    [q EXCEPT !.notif = "ok", !.info = id, !.ack = "pending", !.nAck = @ + 1]

\* variant: the 200 is sent without the auto-reply being handed over
SuccessPathNoAutoReply(q, id) ==
    [q EXCEPT !.notif = "ok", !.info = id,
              !.phase = "responded", !.resp = Resp(200, "", <<>>, id),
              !.nResp = @ + 1]

\* the handler after an accepted notification: the auto-reply is handed to
\* the dispatcher without being awaited, then the 200 carries info.messageId
SuccessPath(q, id) ==
    [q EXCEPT !.notif = "ok", !.info = id,
              !.ack = "pending", !.nAck = @ + 1,
              !.phase = "responded", !.resp = Resp(200, "", <<>>, id),
              !.nResp = @ + 1]

\* variant: a timeout is not classified as a connection failure
CatchResponseNoTimeout(code) ==
    IF code = "EAUTH" THEN Resp(500, "EMAIL_AUTH_ERROR", <<>>, "")
    ELSE IF code = "ECONNECTION"
         THEN Resp(500, "EMAIL_CONNECTION_ERROR", <<>>, "")
    ELSE Resp(500, "INTERNAL_ERROR", <<>>, "")

\* the catch block of the handler
CatchResponse(code) ==
    IF code = "EAUTH" THEN Resp(500, "EMAIL_AUTH_ERROR", <<>>, "")
    ELSE IF code = "ECONNECTION" \/ code = "ETIMEDOUT"
         THEN Resp(500, "EMAIL_CONNECTION_ERROR", <<>>, "")
    ELSE Resp(500, "INTERNAL_ERROR", <<>>, "")

\* res.status(..).json(..) on request record q
Respond(q, resp) ==
    [q EXCEPT !.phase = "responded", !.resp = resp, !.nResp = @ + 1]

\* variant: the sender is thanked although the notification failed
FailurePathWithAutoReply(q, code) ==
    [q EXCEPT !.notif = "failed", !.err = code,
              !.ack = "pending", !.nAck = @ + 1,
              !.phase = "responded", !.resp = CatchResponse(code), !.nResp = @ + 1]

\* the handler's catch block after a rejected notification: the error is
\* classified and answered, nothing else is sent
FailurePath(q, code) ==
    Respond([q EXCEPT !.notif = "failed", !.err = code], CatchResponse(code))

\* variant: a failed auto-reply is handed to the dispatcher once more
AckCatchRetries(q) ==
    [q EXCEPT !.logged = @ + 1, !.ack = "pending", !.nAck = @ + 1]

\* variant: the auto-reply's failure is reported to the client
AckCatchResponds(q) ==
    [q EXCEPT !.ack = "failed", !.logged = @ + 1,
              !.resp = Resp(500, "INTERNAL_ERROR", <<>>, ""), !.nResp = @ + 1]

\* .catch(err => console.error('Failed to send auto-reply:', err.message))
AckCatch(q) == [q EXCEPT !.ack = "failed", !.logged = @ + 1]

\* ------------------------------------------------ the other requests
\* no Origin header, and an origin no environment allows
ApiOrigins == {"none", "foreign"}
Methods == {"GET", "POST", "OPTIONS"}
Paths == {"/api/health", "/api/contact", "/index.html", "/nope"}

\* the files express.static finds under __dirname
StaticFiles == {"/index.html"}

NoApi ==
    [addr |-> 0, method |-> "", path |-> "", allowed |-> FALSE, bodyOk |-> FALSE,
     route |-> "", over |-> FALSE, status |-> 0, body |-> [success |-> FALSE]]

NoProbe == [fn |-> "none", arg |-> <<>>, done |-> FALSE, out |-> <<>>]

\* the middleware or route that ends a request which is no POST /api/contact:
\* cors (error, or the preflight it answers itself), express.json,
\* express.static, app.get('/api/health'), the 404 handler
RouteOf(env, o, m, p, b) ==
    IF ~CorsAllows(env, o) THEN "corsError"
    ELSE IF m = "OPTIONS" THEN "preflight"
    ELSE IF ~b THEN "parseError"
    ELSE IF m = "GET" /\ p \in StaticFiles THEN "static"
    ELSE IF m = "GET" /\ p = "/api/health" THEN "health"
    ELSE "notFound"

\* variant: the limiter is mounted on every path that reaches the router
ApiLimitedAll(route) == route \in {"health", "notFound"}

\* the routes apiLimiter is mounted on
ApiLimited(route) == route = "health"

\* variant: emailConfigured tells whether a transporter was asked for
HealthBodyAlways(tr) == [success |-> TRUE, emailConfigured |-> TRUE]

\* the health handler's body (message and timestamp left out)
HealthBody(tr) == [success |-> TRUE, emailConfigured |-> (tr # "null")]

ErrBody(code) == [success |-> FALSE, code |-> code]

\* the status and body each of them answers with
RouteResponse(route, tr) ==
    CASE route = "corsError" ->
            [status |-> errorHandler("Not allowed by CORS", 0).status,
             body |-> ErrBody(errorHandler("Not allowed by CORS", 0).code)]
      [] route = "preflight" -> [status |-> 204, body |-> [success |-> FALSE]]
      [] route = "parseError" ->
            [status |-> errorHandler("Unexpected token", 400).status,
             body |-> ErrBody(errorHandler("Unexpected token", 400).code)]
      [] route = "static" -> [status |-> 200, body |-> [success |-> FALSE]]
      [] route = "health" -> [status |-> 200, body |-> HealthBody(tr)]
      [] OTHER -> [status |-> 404, body |-> ErrBody("NOT_FOUND")]

\* ------------------------------------------------------- page: the gallery
Cards == 1..NumCards

\* the cards' data-category attributes
CardCategory(c) == IF c % 2 = 1 THEN "web" ELSE "design"

\* the filter buttons' data-filter attributes
Filters == {"all", "web", "design"}

\* the page as loaded: no filter clicked, every card shown
NoGallery ==
    [filter |-> "none", hidden |-> [c \in Cards |-> FALSE],
     opacity |-> [c \in Cards |-> 1], timers |-> <<>>]

\* the cards filterProjects(category) shows
Matches(category, c) == category = "all" \/ CardCategory(c) = category

\* the cards from c on that filterProjects(category) hides, in the order of
\* forEach
RECURSIVE CardsFrom(_, _)
CardsFrom(c, category) ==
    IF c > NumCards THEN <<>>
    ELSE (IF Matches(category, c) THEN <<>> ELSE <<c>>) \o CardsFrom(c + 1, category)

\* the click handler of a filter button: the button becomes the active one
\* and filterProjects(category) runs over the cards: a matching card loses
\* 'hidden' and is faded in, any other is faded out and gets a timer of 300 ms
\* that adds 'hidden'; timers of one delay fire in the order they were set
filterProjects(g, category) ==
    [filter |-> category,
     hidden |-> [c \in Cards |-> IF Matches(category, c) THEN FALSE ELSE g.hidden[c]],
     opacity |-> [c \in Cards |-> IF Matches(category, c) THEN 1 ELSE 0],
     timers |-> g.timers \o CardsFrom(1, category)]

\* ---------------------------------------------------------- page: the form
\* the page as loaded
NoForm ==
    [btn |-> [innerHTML |-> "original", dataset |-> "unset", disabled |-> FALSE,
              loading |-> FALSE, backgroundColor |-> ""],
     inFlight |-> 0, resetTimers |-> 0, message |-> "none", cleared |-> FALSE]

\* variant: the content to restore is read from the button each time
setFormLoadingNoDataset(btn, isLoading) ==
    IF isLoading
    THEN [btn EXCEPT !.innerHTML = "sending", !.disabled = TRUE, !.loading = TRUE]
    ELSE [btn EXCEPT !.disabled = FALSE, !.loading = FALSE]

\* setFormLoading(isLoading)
setFormLoading(btn, isLoading) ==
    LET originalContent == IF btn.dataset # "unset" THEN btn.dataset
                           ELSE btn.innerHTML
    IN  IF isLoading
        THEN [btn EXCEPT !.dataset = originalContent, !.innerHTML = "sending",
                         !.disabled = TRUE, !.loading = TRUE]
        ELSE [btn EXCEPT !.innerHTML = originalContent, !.disabled = FALSE,
                         !.loading = FALSE]

\* /^[^\s@]+@[^\s@]+\.[^\s@]+$/.test(e)
ClientEmailOk(e) ==
    /\ Count(e, "@") = 1
    /\ \A i \in 1..Len(e) : e[i] \notin Whitespace
    /\ LET at == LastIndexOf(e, "@") IN
        /\ at > 1
        /\ \E i \in (at + 2)..(Len(e) - 1) : e[i] = "."

\* the submit handler's checks on the trimmed values: the message shown for
\* the first one that fails, or "none"
ClientCheck(sub) ==
    LET name    == Trim(toString(sub.name))
        email   == Trim(toString(sub.email))
        message == Trim(toString(sub.message))
    IN  IF Len(name) < NameMin THEN "name"
        ELSE IF ~ClientEmailOk(email) THEN "email"
        ELSE IF Len(message) < MessageMin THEN "message"
        ELSE "none"

\* how a request of the page ends: the server's answer with its code, a
\* failed fetch, or a body that is no JSON
FetchOutcomes ==
    {"ok", "VALIDATION_ERROR", "RATE_LIMIT_EXCEEDED", "SPAM_DETECTED",
     "SERVICE_UNAVAILABLE", "EMAIL_AUTH_ERROR", "EMAIL_CONNECTION_ERROR",
     "EMAIL_SEND_ERROR", "network", "json"}

\* the reset times a window can have
ResetTimes == 0..(MaxTime + WindowTicks)

\* the server after startup
Started ==
    /\ now = 0
    /\ NODE_ENV \in {"development", "production"}
    /\ \E host \in BOOLEAN, user \in BOOLEAN, pass \in BOOLEAN :
          transporter = createTransporter(host, user, pass)
    /\ contactStore = [a \in Addrs |-> [totalHits |-> 0, resetTime |-> 0]]
    /\ tally = [a \in Addrs |-> [handled |-> 0, refused |-> 0]]
    /\ reqs = [r \in Slots |-> IdleReq]
    /\ last = IdleReq
    /\ apiStore = [a \in Addrs |-> [totalHits |-> 0, resetTime |-> 0]]
    /\ lastApi = NoApi
    /\ admitted = [a \in Addrs |-> [w \in ResetTimes |-> 0]]
    /\ verified = IF transporter = "null" THEN "none" ELSE "pending"
    /\ gallery = NoGallery
    /\ form = NoForm

Init == Started /\ probe = NoProbe

\* ----------------------------------------------------------------- actions
\* POST /api/contact from address a with Origin o, a body that parses or not (b)
\* and submission s: cors, express.json, contactLimiter, the validation chain
\* and the handler up to its first await
ReceiveContact(r, a, o, b, s) ==
    /\ reqs[r].phase = "idle"
    /\ \A r2 \in Slots : r2 < r => reqs[r2].phase # "idle"
    /\ LET q0 == [IdleReq EXCEPT !.addr = a] IN
       IF ~CorsAllows(NODE_ENV, o)
       THEN /\ last' = Respond(q0, errorHandler("Not allowed by CORS", 0))
            /\ UNCHANGED <<contactStore, tally, reqs>>
       ELSE IF ~b
       THEN /\ last' = Respond([q0 EXCEPT !.corsOk = TRUE],
                               errorHandler("Unexpected token", 400))
            /\ UNCHANGED <<contactStore, tally, reqs>>
       ELSE
         LET store == Increment(contactStore, a, now)
             hits  == store[a].totalHits
             t0    == IF hits = 1 THEN [handled |-> 0, refused |-> 0] ELSE tally[a]
             q1    == [q0 EXCEPT !.corsOk = TRUE, !.parsed = TRUE, !.sub = s,
                                 !.over = (hits > RATE_LIMIT_MAX)]
         IN
         /\ hits <= RATE_LIMIT_MAX + MaxOver
         /\ IF LimiterDenies(hits, RATE_LIMIT_MAX)
            THEN /\ last' = Respond(q1, RateLimitResponse)
                 /\ contactStore' = store
                 /\ tally' = [tally EXCEPT ![a] = [t0 EXCEPT !.refused = @ + 1]]
                 /\ UNCHANGED reqs
            ELSE
              LET errors == errorsOf[s]
                  body   == bodyOf[s]
                  gate   == ContactGates(errors, transporter, body)
                  q2     == [q1 EXCEPT !.handled = TRUE]
              IN
              /\ tally' = [tally EXCEPT ![a] = [t0 EXCEPT !.handled = @ + 1]]
              /\ IF gate # NoResp
                 THEN /\ last' = Respond(q2, gate)
                      /\ contactStore' = AfterResponse(store, a, gate.status)
                      /\ UNCHANGED reqs
                 ELSE /\ contactStore' = store
                      /\ reqs' = [reqs EXCEPT ![r] =
                                    [q2 EXCEPT !.phase = "sending",
                                               !.notif = "pending",
                                               !.nNotif = @ + 1,
                                               !.notifMail = NotifSent(body)]]
                      /\ UNCHANGED last
    /\ UNCHANGED <<now, NODE_ENV, transporter>>
    /\ UNCHANGED others

\* variant: the fields are kept in a variable the handlers share, which holds
\* those of the request in the highest slot in flight
HandlerBodyShared(rs, r) ==
    bodyOf[rs[CHOOSE r2 \in Slots :
                 /\ rs[r2].phase # "idle"
                 /\ \A r3 \in Slots : rs[r3].phase # "idle" => r3 <= r2].sub]

\* name, email, subject and message are constants of the handler's own call
HandlerBody(rs, r) == bodyOf[rs[r].sub]

\* await transporter.sendMail(mailOptions) resolves with info.messageId = id
NotifResolve(r, id) ==
    /\ reqs[r].phase = "sending"
    /\ reqs[r].notif = "pending"
    /\ reqs' = [reqs EXCEPT ![r] =
                  [SuccessPath(@, id) EXCEPT !.ackMail = AckSent(HandlerBody(reqs, r))]]
    /\ contactStore' = AfterResponse(contactStore, reqs[r].addr, 200)
    /\ UNCHANGED <<now, NODE_ENV, transporter, tally, last>>
    /\ UNCHANGED others

\* await transporter.sendMail(mailOptions) rejects with error.code = code
NotifReject(r, code) ==
    /\ reqs[r].phase = "sending"
    /\ reqs[r].notif = "pending"
    /\ last' = FailurePath(reqs[r], code)
    /\ reqs' = [reqs EXCEPT ![r] = IdleReq]
    /\ contactStore' = AfterResponse(contactStore, reqs[r].addr, 500)
    /\ UNCHANGED <<now, NODE_ENV, transporter, tally>>
    /\ UNCHANGED others

\* the auto-reply's promise resolves: no handler is attached to that
AckResolve(r) ==
    /\ reqs[r].ack = "pending"
    /\ last' = [reqs[r] EXCEPT !.ack = "ok"]
    /\ reqs' = [reqs EXCEPT ![r] = IdleReq]
    /\ UNCHANGED <<now, NODE_ENV, transporter, contactStore, tally>>
    /\ UNCHANGED others

\* the auto-reply's promise rejects: the .catch callback runs
AckReject(r) ==
    /\ reqs[r].ack = "pending"
    /\ last' = AckCatch(reqs[r])
    /\ reqs' = [reqs EXCEPT ![r] = IdleReq]
    /\ UNCHANGED <<now, NODE_ENV, transporter, contactStore, tally>>
    /\ UNCHANGED others

\* a request from address a, Origin o, method m, path p, that is not a POST to
\* /api/contact; b: express.json can parse its body
ReceiveApi(a, o, m, p, b) ==
    /\ ~(m = "POST" /\ p = "/api/contact")
    /\ b \/ m = "POST"            \* only a POST carries a body to parse
    /\ LET route == RouteOf(NODE_ENV, o, m, p, b)
           q0    == [NoApi EXCEPT !.addr = a, !.method = m, !.path = p,
                                  !.allowed = CorsAllows(NODE_ENV, o),
                                  !.bodyOk = b, !.route = route]
           r0    == RouteResponse(route, transporter)
       IN
       IF ApiLimited(route)
       THEN LET store == Increment(apiStore, a, now)
                hits  == store[a].totalHits
            IN  /\ hits <= ApiMax + MaxOver
                /\ apiStore' = store
                /\ lastApi' =
                      IF LimiterDenies(hits, ApiMax)
                      THEN [q0 EXCEPT !.over = (hits > ApiMax), !.status = 429,
                                      !.body = ErrBody("RATE_LIMIT_EXCEEDED")]
                      ELSE [q0 EXCEPT !.over = (hits > ApiMax),
                                      !.status = r0.status, !.body = r0.body]
       ELSE /\ lastApi' = [q0 EXCEPT !.status = r0.status, !.body = r0.body]
            /\ UNCHANGED apiStore
    /\ UNCHANGED <<now, NODE_ENV, transporter, contactStore, tally, reqs, last,
                   probe, admitted>>
    /\ UNCHANGED aside

Tick ==
    /\ now < MaxTime
    /\ now' = now + 1
    /\ UNCHANGED <<NODE_ENV, transporter, contactStore, tally, reqs, last>>
    /\ UNCHANGED others

\* the pipeline, its requests coming from the addresses A
NextFrom(A) ==
    \/ \E r \in Slots, a \in A, o \in Origins, b \in BOOLEAN, s \in PipelineSubs :
          ReceiveContact(r, a, o, b, s)
    \/ \E r \in Slots, id \in MsgIds : NotifResolve(r, id)
    \/ \E r \in Slots, code \in ErrCodes : NotifReject(r, code)
    \/ \E r \in Slots : AckResolve(r)
    \/ \E r \in Slots : AckReject(r)
    \/ Tick

Next == NextFrom({1})

Spec == Init /\ [][Next]_vars

\* contact requests that are sent, in flight side by side within one window
NextMail ==
    \/ \E r \in Slots, s \in MailSubs : ReceiveContact(r, 1, "none", TRUE, s)
    \/ \E r \in Slots, id \in MsgIds : NotifResolve(r, id)
    \/ \E r \in Slots, code \in ErrCodes : NotifReject(r, code)
    \/ \E r \in Slots : AckResolve(r)
    \/ \E r \in Slots : AckReject(r)

SpecMail == Init /\ [][NextMail]_vars

\* transporter.verify calls back, with an error or without
VerifyDone(error) ==
    /\ verified = "pending"
    /\ verified' = IF error THEN "failed" ELSE "ok"
    /\ transporter' = VerifyCallback(transporter, error)
    /\ UNCHANGED <<now, NODE_ENV, contactStore, tally, reqs, last,
                   apiStore, lastApi, probe, admitted, page>>

\* the startup verification, health requests and contact requests that are
\* sent, in any order
NextConfig ==
    \/ \E error \in BOOLEAN : VerifyDone(error)
    \/ \E r \in Slots : ReceiveContact(r, 1, "none", TRUE, 1)
    \/ \E r \in Slots, id \in MsgIds : NotifResolve(r, id)
    \/ \E r \in Slots, code \in ErrCodes : NotifReject(r, code)
    \/ \E r \in Slots : AckResolve(r)
    \/ \E r \in Slots : AckReject(r)
    \/ /\ apiStore[1].totalHits < MaxApiHits
       /\ ReceiveApi(1, "none", "GET", "/api/health", TRUE)

SpecConfig == Init /\ [][NextConfig]_vars

\* contact and health requests of two addresses, in any order
BothAddrs == {1, NumAddrs}

NextBoth ==
    \/ \E r \in Slots, a \in BothAddrs : ReceiveContact(r, a, "none", TRUE, 3)
    \/ \E a \in BothAddrs :
          /\ apiStore[a].totalHits < MaxApiHits
          /\ ReceiveApi(a, "none", "GET", "/api/health", TRUE)

SpecBoth == Init /\ [][NextBoth]_vars

\* a filter button is clicked
Click(category) ==
    /\ Len(gallery.timers) + Len(CardsFrom(1, category)) <= MaxTimers
    /\ gallery' = filterProjects(gallery, category)
    /\ UNCHANGED <<now, NODE_ENV, transporter, contactStore, tally, reqs, last,
                   apiStore, lastApi, probe, admitted, verified, form>>

\* the oldest hide timer fires: card.classList.add('hidden')
HideTimer ==
    /\ gallery.timers # <<>>
    /\ gallery' = [gallery EXCEPT !.hidden[Head(gallery.timers)] = TRUE,
                                  !.timers = Tail(@)]
    /\ UNCHANGED <<now, NODE_ENV, transporter, contactStore, tally, reqs, last,
                   apiStore, lastApi, probe, admitted, verified, form>>

\* the form's submit event, up to the await of the request; the browser
\* submits no form whose submit button is disabled
Submit(s) ==
    /\ ~form.btn.disabled
    /\ form.inFlight < MaxInFlight
    /\ IF ClientCheck(Submissions[s]) # "none"
       THEN form' = [form EXCEPT !.message = "error"]
       ELSE form' = [form EXCEPT !.btn = setFormLoading(@, TRUE),
                                 !.inFlight = @ + 1]
    /\ UNCHANGED <<now, NODE_ENV, transporter, contactStore, tally, reqs, last,
                   apiStore, lastApi, probe, admitted, verified, gallery>>

\* the request ends and the handler goes on after its await
Settle(outcome) ==
    /\ form.inFlight > 0
    /\ IF outcome = "ok"
       THEN form' = [form EXCEPT !.inFlight = @ - 1,
                                 !.message = "success",
                                 !.cleared = TRUE,
                                 !.btn.innerHTML = "sent",
                                 !.btn.backgroundColor = "#10b981",
                                 !.resetTimers = @ + 1]
       ELSE form' = [form EXCEPT !.inFlight = @ - 1,
                                 !.message = "error",
                                 !.btn = setFormLoading(@, FALSE)]
    /\ UNCHANGED <<now, NODE_ENV, transporter, contactStore, tally, reqs, last,
                   apiStore, lastApi, probe, admitted, verified, gallery>>

\* the timer of 3 s set on success fires
ResetTimer ==
    /\ form.resetTimers > 0
    /\ form' = [form EXCEPT !.resetTimers = @ - 1,
                            !.btn = [setFormLoading(@, FALSE)
                                        EXCEPT !.backgroundColor = ""]]
    /\ UNCHANGED <<now, NODE_ENV, transporter, contactStore, tally, reqs, last,
                   apiStore, lastApi, probe, admitted, verified, gallery>>

\* the message's timer of 5 s fires and the message is removed
MessageTimer ==
    /\ form.message # "none"
    /\ form' = [form EXCEPT !.message = "none"]
    /\ UNCHANGED <<now, NODE_ENV, transporter, contactStore, tally, reqs, last,
                   apiStore, lastApi, probe, admitted, verified, gallery>>

\* the page's events, in any order
NextPage ==
    \/ \E category \in Filters : Click(category)
    \/ HideTimer
    \/ \E s \in PipelineSubs : Submit(s)
    \/ \E outcome \in FetchOutcomes : Settle(outcome)
    \/ ResetTimer
    \/ MessageTimer

SpecPage == Init /\ [][NextPage]_vars

\* a timer that is set fires
SpecPageFair == SpecPage /\ WF_vars(ResetTimer) /\ WF_vars(HideTimer)

\* variant: the hit is written to the store only when the limiter decides
WriteDeferredYes == TRUE

\* the memory store's increment adds the hit and returns the total in one
\* synchronous step, before the limiter's first await
WriteDeferred == FALSE

\* contactLimiter up to its await: a POST /api/contact from address a (no
\* Origin, a body that parses) with submission s is counted and is given the
\* total and the reset time of its window
Arrive(r, a, s) ==
    /\ reqs[r].phase = "idle"
    /\ \A r2 \in Slots : r2 < r => reqs[r2].phase # "idle"
    /\ LET store == Increment(contactStore, a, now)
           hits  == store[a].totalHits
       IN  /\ hits <= RATE_LIMIT_MAX + MaxOver
           /\ contactStore' = IF WriteDeferred THEN contactStore ELSE store
           /\ reqs' = [reqs EXCEPT ![r] =
                         [IdleReq EXCEPT !.phase = "limiting", !.addr = a, !.sub = s,
                                         !.corsOk = TRUE, !.parsed = TRUE,
                                         !.hits = hits, !.win = store[a].resetTime]]
    /\ UNCHANGED <<now, NODE_ENV, transporter, tally, last, apiStore, lastApi,
                   probe, admitted>>
    /\ UNCHANGED aside

\* contactLimiter after its await: 429 when the total it was given exceeds max,
\* else next(): the validation chain and the handler up to its first await
Decide(r) ==
    /\ reqs[r].phase = "limiting"
    /\ LET q  == reqs[r]
           q1 == [q EXCEPT !.over = (q.hits > RATE_LIMIT_MAX)]
       IN
       /\ contactStore' = IF WriteDeferred THEN Increment(contactStore, q.addr, now)
                          ELSE contactStore
       /\ IF LimiterDenies(q.hits, RATE_LIMIT_MAX)
          THEN /\ last' = Respond(q1, RateLimitResponse)
               /\ reqs' = [reqs EXCEPT ![r] = IdleReq]
               /\ UNCHANGED admitted
          ELSE
            LET gate == ContactGates(errorsOf[q.sub], transporter, bodyOf[q.sub])
                q2   == [q1 EXCEPT !.handled = TRUE]
            IN
            /\ admitted' = [admitted EXCEPT ![q.addr][q.win] = @ + 1]
            /\ IF gate # NoResp
               THEN /\ last' = Respond(q2, gate)
                    /\ reqs' = [reqs EXCEPT ![r] = IdleReq]
               ELSE /\ reqs' = [reqs EXCEPT ![r] =
                                  [q2 EXCEPT !.phase = "sending",
                                             !.notif = "pending",
                                             !.nNotif = @ + 1,
                                             !.notifMail = NotifSent(bodyOf[q.sub])]]
                    /\ UNCHANGED last
    /\ UNCHANGED <<now, NODE_ENV, transporter, tally, apiStore, lastApi, probe>>
    /\ UNCHANGED aside

\* the submission of the racing requests: it fails validation, so that a
\* request the limiter hands on is over at the handler's first gate
RaceSubs == {3}

\* contact requests of one address whose limiter steps interleave
NextRace ==
    \/ \E r \in Slots, s \in RaceSubs : Arrive(r, 1, s)
    \/ \E r \in Slots : Decide(r)
    \/ Tick

SpecRace == Init /\ [][NextRace]_vars

\* the requests that are no contact submission, from the addresses A
NextApiFrom(A) ==
    \/ \E a \in A, o \in ApiOrigins, m \in Methods, p \in Paths, b \in BOOLEAN :
          ReceiveApi(a, o, m, p, b)
    \/ Tick

NextApi == NextApiFrom({1})

SpecApi == Init /\ [][NextApi]_vars


\* the dispatcher settles every notification it was handed: its connection and
\* socket timeouts (10 s each) end a send that hangs with ETIMEDOUT
NotifSettles(r) ==
    \/ \E id \in MsgIds : NotifResolve(r, id)
    \/ \E code \in ErrCodes : NotifReject(r, code)

SpecFair == Spec /\ \A r \in Slots : WF_vars(NotifSettles(r))

\* ------------------------------------------------------------------ claims
\* the requests the state still shows: those in flight and the last one over
Observed == {reqs[r] : r \in Slots} \cup {last}

Responded(q) == q.phase = "responded"

Is(q, status, code) == q.resp.status = status /\ q.resp.code = code

\* the rules of the four fields, on the raw submission
FieldRulesHold(sub) ==
    /\ isLength(Trim(toString(sub.name)), NameMin, NameMax)
    /\ isEmail(Trim(toString(sub.email)))
    /\ isLength(normalizeEmail(Trim(toString(sub.email))), 0, EmailMax)
    /\ sub.subject # Undefined => isLength(Trim(sub.subject), 0, SubjectMax)
    /\ isLength(Trim(toString(sub.message)), MessageMin, MessageMax)

\* the trimmed message holds a blocklisted term, in any letter case
HasBlocklistedTerm(sub) ==
    \E k \in spamKeywords : includes(toLowerCase(Trim(toString(sub.message))), k)

ValidSubs == {s \in SubIds : FieldRulesHold(Submissions[s])}
SpamSubs == {s \in SubIds : HasBlocklistedTerm(Submissions[s])}

Valid(q) == q.sub \in ValidSubs
Spammy(q) == q.sub \in SpamSubs

\* C1: a POST that reaches the contact route (allowed origin, body parsed) is
\* answered by the first failing gate, in the order rate limit, validation,
\* dispatcher configured, spam filter, send: over the limit it gets 429
\* whatever it carries; within the limit an invalid submission gets 400
\* VALIDATION_ERROR even with no dispatcher; a valid one with no dispatcher gets
\* 503 even when its message is spam; a valid spam one with a dispatcher gets
\* SPAM_DETECTED; only a valid, clean one with a dispatcher is sent.
C1_GateOrder ==
    \A q \in Observed :
        /\ (Responded(q) /\ q.parsed) =>
              IF q.over THEN Is(q, 429, "RATE_LIMIT_EXCEEDED")
              ELSE IF ~Valid(q) THEN Is(q, 400, "VALIDATION_ERROR")
              ELSE IF transporter = "null" THEN Is(q, 503, "SERVICE_UNAVAILABLE")
              ELSE IF Spammy(q) THEN Is(q, 400, "SPAM_DETECTED")
              ELSE q.nNotif = 1 /\ q.resp.status \in {200, 500}
        /\ q.nNotif > 0 =>
              ~q.over /\ Valid(q) /\ transporter # "null" /\ ~Spammy(q)

\* an invalid submission that also carries a blocklisted term, sent to a server
\* without dispatcher, was answered VALIDATION_ERROR
C1_Witness ==
    /\ transporter = "null"
    /\ Responded(last) /\ last.parsed /\ ~last.over
    /\ ~Valid(last) /\ Spammy(last)
    /\ Is(last, 400, "VALIDATION_ERROR")

\* what one step does to the limiter entry of address a
Admitted(a) == tally'[a].handled = (IF contactStore'[a].totalHits = 1 THEN 1
                                    ELSE tally[a].handled + 1)
Refused(a) == /\ last'.addr = a /\ last'.over
              /\ Is(last', 429, "RATE_LIMIT_EXCEEDED")
              /\ tally'[a].handled = tally[a].handled

C4_Success ==
    \A q \in Observed :
        q.notif = "ok" =>
            /\ Responded(q) /\ q.nResp = 1
            /\ q.resp.status = 200 /\ q.resp.success
            /\ q.info \in MsgIds /\ q.resp.messageId = q.info
            /\ q.nNotif = 1 /\ q.nAck = 1
            /\ Valid(q) /\ ~Spammy(q) /\ transporter = "transport"

C4_Witness ==
    \E r \in Slots :
        /\ reqs[r].notif = "ok" /\ reqs[r].sub = 1 /\ reqs[r].info = "id2"
        /\ reqs[r].resp.status = 200 /\ reqs[r].resp.messageId = "id2"
        /\ reqs[r].nNotif = 1 /\ reqs[r].nAck = 1

\* C5: the step in which a pending acknowledgement send succeeds or fails
\* leaves the request's response as it was (the 200 with the messageId, sent
\* once) and makes no further send; a failure is logged once and nothing
\* else; while the acknowledgement is pending the response is already there.
C5_AckSwallowed ==
    [][\A r \in Slots :
          (reqs[r].ack = "pending" /\ reqs'[r] # reqs[r]) =>
              /\ reqs[r].resp.status = 200 /\ reqs[r].resp.messageId = reqs[r].info
              /\ last'.resp = reqs[r].resp
              /\ last'.nResp = 1 /\ last'.phase = "responded"
              /\ last'.nNotif = 1 /\ last'.nAck = 1
              /\ last'.ack \in {"ok", "failed"}
              /\ last'.logged = (IF last'.ack = "failed" THEN 1 ELSE 0)
              /\ reqs'[r] = IdleReq]_vars

C5_Witness ==
    /\ last.ack = "failed" /\ last.logged = 1
    /\ last.nResp = 1 /\ last.resp.status = 200 /\ last.resp.messageId = last.info

\* C6: when the notification send fails with error code c, the response is
\* 500 with EMAIL_AUTH_ERROR for EAUTH, EMAIL_CONNECTION_ERROR for ECONNECTION
\* and ETIMEDOUT, INTERNAL_ERROR for any other code; the request is answered
\* (once) in the step that delivers the failure and makes no acknowledgement send.
C6_SendFailure ==
    \A q \in Observed :
        q.notif = "failed" =>
            /\ Responded(q) /\ q.nResp = 1 /\ ~q.resp.success
            /\ q.resp.status = 500
            /\ q.resp.code = (IF q.err = "EAUTH" THEN "EMAIL_AUTH_ERROR"
                              ELSE IF q.err \in {"ECONNECTION", "ETIMEDOUT"}
                                   THEN "EMAIL_CONNECTION_ERROR"
                              ELSE "INTERNAL_ERROR")
            /\ q.nAck = 0

C6_Witness ==
    /\ last.notif = "failed" /\ last.err = "ETIMEDOUT"
    /\ Is(last, 500, "EMAIL_CONNECTION_ERROR") /\ last.nResp = 1

\* C7: with no dispatcher configured, every submission that passes the limiter
\* and satisfies the field rules (spam or not) is answered 503
\* SERVICE_UNAVAILABLE, and no request ever makes a send.
C7_Unconfigured ==
    transporter = "null" =>
        \A q \in Observed :
            /\ q.nNotif = 0 /\ q.nAck = 0 /\ q.notif = "none" /\ q.ack = "none"
            /\ (q.handled /\ Valid(q)) =>
                  Responded(q) /\ Is(q, 503, "SERVICE_UNAVAILABLE") /\ q.nResp = 1

C7_Witness ==
    /\ transporter = "null"
    /\ last.handled /\ Valid(last) /\ Spammy(last)
    /\ Is(last, 503, "SERVICE_UNAVAILABLE") /\ last.nNotif = 0

\* C8: a submission that reaches the spam filter (within the limit, field
\* rules satisfied, dispatcher configured) and whose message holds a
\* blocklisted term in any letter case is answered 400 SPAM_DETECTED and
\* causes no send.
C8_Spam ==
    \A q \in Observed :
        (q.handled /\ Valid(q) /\ transporter = "transport" /\ Spammy(q)) =>
            /\ Responded(q) /\ q.nResp = 1
            /\ Is(q, 400, "SPAM_DETECTED") /\ ~q.resp.success
            /\ q.nNotif = 0 /\ q.nAck = 0 /\ q.notif = "none" /\ q.ack = "none"

C8_Witness ==
    /\ transporter = "transport"
    /\ last.handled /\ Valid(last) /\ Spammy(last)
    /\ Is(last, 400, "SPAM_DETECTED") /\ last.nNotif = 0

FieldNames == {"name", "email", "subject", "message"}

\* C9: a submission that passes the limiter and breaks a field rule is
\* answered 400 VALIDATION_ERROR (never a 500) with a non-empty details list
\* whose entries name a field of the form and carry a message, and causes no
\* send.
C9_Validation ==
    \A q \in Observed :
        (q.handled /\ ~Valid(q)) =>
            /\ Responded(q) /\ q.nResp = 1
            /\ Is(q, 400, "VALIDATION_ERROR") /\ ~q.resp.success
            /\ Len(q.resp.details) > 0
            /\ \A i \in 1..Len(q.resp.details) :
                  /\ q.resp.details[i].field \in FieldNames
                  /\ q.resp.details[i].message # ""
            /\ q.nNotif = 0 /\ q.nAck = 0 /\ q.notif = "none" /\ q.ack = "none"

C9_Witness ==
    /\ last.handled /\ last.sub = 3
    /\ Is(last, 400, "VALIDATION_ERROR")
    /\ last.resp.details =
          <<[field |-> "name",
             message |-> "Name must be between 2 and 100 characters"]>>


\* the (status, code) pairs of the contact endpoint's documented responses
ContactPairs == {
    <<200, "">>,
    <<400, "VALIDATION_ERROR">>, <<400, "SPAM_DETECTED">>,
    <<429, "RATE_LIMIT_EXCEEDED">>,
    <<503, "SERVICE_UNAVAILABLE">>,
    <<500, "EMAIL_AUTH_ERROR">>, <<500, "EMAIL_CONNECTION_ERROR">>,
    <<500, "INTERNAL_ERROR">> }

Pair(q) == <<q.resp.status, q.resp.code>>

\* every request is answered at most once, and an answered one has exactly one
\* response, success being true on the 200 alone
OneResponse ==
    \A q \in Observed :
        /\ q.nResp = (IF Responded(q) THEN 1 ELSE 0)
        /\ Responded(q) => (q.resp.success <=> q.resp.status = 200)

\* a request awaiting its notification only moves on to being answered, and an
\* answered request keeps its response for as long as it is there
TerminalStable ==
    [][\A r \in Slots :
          /\ (reqs[r].phase = "sending" /\ reqs'[r] # reqs[r]) =>
                \/ Responded(reqs'[r])
                \/ reqs'[r] = IdleReq /\ Responded(last') /\ last'.nResp = 1
          /\ (Responded(reqs[r]) /\ reqs'[r] # reqs[r]) =>
                /\ reqs'[r] = IdleReq
                /\ last'.resp = reqs[r].resp /\ last'.nResp = 1]_vars

\* C10 as stated: every answered contact request carries one of the eight
\* documented (status, code) pairs.
C10_Original ==
    OneResponse /\ \A q \in Observed : Responded(q) => Pair(q) \in ContactPairs

\* C10, amended: every contact request is answered at most once, by a
\* structured response whose (status, code) pair is one of the eight documented
\* pairs or 403/CORS_ERROR (the answer to a request whose Origin is not
\* allowed); an answered request keeps its response, and, the dispatcher
\* settling every notification send, every request awaiting its notification
\* is eventually answered.
C10_Structured ==
    /\ [](OneResponse /\ \A q \in Observed :
            Responded(q) => Pair(q) \in ContactPairs \cup {<<403, "CORS_ERROR">>})
    /\ TerminalStable
    /\ \A r \in Slots :
          (reqs[r].phase = "sending") ~> (reqs[r].phase # "sending")

\* a request from a foreign origin was answered 403 CORS_ERROR while another
\* request awaits its notification
C10_Witness ==
    /\ Responded(last) /\ ~last.corsOk /\ Is(last, 403, "CORS_ERROR")
    /\ last.nResp = 1
    /\ \E r \in Slots : reqs[r].phase = "sending"


\* ------------------------------------------------------ the field rules
\* inputs of the probes: n letters with whitespace around them
Rep(c, n) == [i \in 1..n |-> c]
Padded(lead, n, trail) == Rep(" ", lead) \o Rep("a", n) \o Rep(" ", trail)
Pads == 0..MaxPad
Around(k) == (k - 1)..(k + 1)
LengthSamples ==
    (0..MaxShort) \cup Around(NameMax) \cup Around(SubjectMax) \cup Around(MessageMax)

Input(fn, arg) == [fn |-> fn, arg |-> arg, done |-> FALSE, out |-> <<>>]
Result(out) == [probe EXCEPT !.done = TRUE, !.out = out]
Pending(fn) == probe.fn = fn /\ ~probe.done

LengthInputs(fn) ==
    {Input(fn, [lead |-> l, n |-> n, trail |-> t]) :
        l \in Pads, n \in LengthSamples, t \in Pads}

\* the name chain applied to a name of n letters
ApplyName ==
    /\ Pending("name")
    /\ probe' = Result(NameErrors(Padded(probe.arg.lead, probe.arg.n, probe.arg.trail)))
    /\ UNCHANGED <<now, NODE_ENV, transporter, contactStore, tally, reqs, last,
                   apiStore, lastApi, admitted>>
    /\ UNCHANGED aside

\* the message chain applied to a message of n letters
ApplyMessage ==
    /\ Pending("message")
    /\ probe' = Result(MessageErrors(Padded(probe.arg.lead, probe.arg.n, probe.arg.trail)))
    /\ UNCHANGED <<now, NODE_ENV, transporter, contactStore, tally, reqs, last,
                   apiStore, lastApi, admitted>>
    /\ UNCHANGED aside

\* the email addresses tried: every text of these characters
EmailAlphabet == {"a", "@", ".", "\""}
EmailInputs ==
    {Input("email", s) : s \in UNION {[1..n -> EmailAlphabet] : n \in 0..MaxEmailLen}}

\* the email chain applied to an address
ApplyEmail ==
    /\ Pending("email")
    /\ probe' = Result(EmailErrors(probe.arg))
    /\ UNCHANGED <<now, NODE_ENV, transporter, contactStore, tally, reqs, last,
                   apiStore, lastApi, admitted>>
    /\ UNCHANGED aside

\* the messages tried by the spam check: a keyword with none, one, every
\* second or all of its letters in upper case, or with one character left out (cut > 0), between
\* runs of the letter x
UpperChar(c) ==
    IF \E i \in 1..Len(LowerLetters) : LowerLetters[i] = c
    THEN UpperLetters[CHOOSE i \in 1..Len(LowerLetters) : LowerLetters[i] = c]
    ELSE c
Cased(k, mask) == [i \in 1..Len(k) |-> IF i \in mask THEN UpperChar(k[i]) ELSE k[i]]
Without(k, cut) ==
    IF cut = 0 THEN k ELSE SubSeq(k, 1, cut - 1) \o SubSeq(k, cut + 1, Len(k))
Masks(k) ==
    {{}, 1..Len(k), {i \in 1..Len(k) : i % 2 = 0}, {i \in 1..Len(k) : i % 2 = 1}}
        \cup {{i} : i \in 1..Len(k)}
SpamText(a) ==
    Rep("x", a.lead) \o Without(Cased(a.keyword, a.mask), a.cut) \o Rep("x", a.trail)
SpamInputs ==
    UNION {{Input("spam", [keyword |-> k, mask |-> m, cut |-> c, lead |-> l, trail |-> t]) :
               m \in Masks(k), c \in 0..Len(k), l \in Pads, t \in Pads} :
           k \in spamKeywords}

\* the spam check applied to a message
ApplySpam ==
    /\ Pending("spam")
    /\ probe' = Result(containsSpam(SpamText(probe.arg)))
    /\ UNCHANGED <<now, NODE_ENV, transporter, contactStore, tally, reqs, last,
                   apiStore, lastApi, admitted>>
    /\ UNCHANGED aside

\* the values given to the sanitizer: every text of these characters, and a
\* value that is no string
SanAlphabet == {"a", " ", "<", ">", "\"", "'"}
SanInputs ==
    {Input("sanitize", s) :
        s \in {Undefined} \cup UNION {[1..n -> SanAlphabet] : n \in 0..MaxSanLen}}

\* sanitizeInput applied to a value
ApplySanitize ==
    /\ Pending("sanitize")
    /\ probe' = Result(sanitizeInput(probe.arg))
    /\ UNCHANGED <<now, NODE_ENV, transporter, contactStore, tally, reqs, last,
                   apiStore, lastApi, admitted>>
    /\ UNCHANGED aside

\* the submissions the two messages are composed for: each passes validation
MailNames == {<<"J", "o">>, <<"<", "b", ">">>}
MailEmails == {<<"j", "o", "@", "x", ".", "c", "o", "m">>,
               <<"O", "'", "b", "@", "x", ".", "c", "o">>}
MailSubjects == {Undefined, <<>>, <<" ">>, <<"H", "i">>, <<"a", "<", "b", " ">>}
MailMessages == {<<"1", "2", "3", "4", "5", "6", "7", "8", "9", "0">>,
                 <<" ", "i", "t", "'", "s", "\n", "<", "m", "e", ">", "!", "!">>}
MailInputs ==
    {Input("mail", [name |-> n, email |-> e, subject |-> s, message |-> m]) :
        n \in MailNames, e \in MailEmails, s \in MailSubjects, m \in MailMessages}

\* the handler composing the notification and the acknowledgement from req.body
ApplyCompose ==
    /\ Pending("mail")
    /\ validationResult(probe.arg) = <<>>
    /\ LET body == SanitizedBody(probe.arg)
       IN  probe' = Result([notif |-> mailOptions(body), ack |-> autoReplyOptions(body)])
    /\ UNCHANGED <<now, NODE_ENV, transporter, contactStore, tally, reqs, last,
                   apiStore, lastApi, admitted>>
    /\ UNCHANGED aside

\* the submissions given to the four chains together: each field present and
\* valid, present and invalid, or absent
FormNames == {<<"J", "o">>, <<"J">>, <<" ">>, Undefined}
FormEmails == {<<"j", "o", "@", "x", ".", "c", "o", "m">>, <<"j", "o">>, Undefined}
FormSubjects == {Undefined, <<"H", "i">>, Rep("a", SubjectMax + 1)}
FormMessages == {<<"1", "2", "3", "4", "5", "6", "7", "8", "9", "0">>,
                 <<"h", "i">>, Undefined}
FormInputs ==
    {Input("validate", [name |-> n, email |-> e, subject |-> s, message |-> m]) :
        n \in FormNames, e \in FormEmails, s \in FormSubjects, m \in FormMessages}

\* the four validation chains run on a request body, and validationResult
ApplyValidate ==
    /\ Pending("validate")
    /\ probe' = Result(validationResult(probe.arg))
    /\ UNCHANGED <<now, NODE_ENV, transporter, contactStore, tally, reqs, last,
                   apiStore, lastApi, admitted>>
    /\ UNCHANGED aside

ProbeInputs ==
    FormInputs \cup MailInputs \cup LengthInputs("name") \cup LengthInputs("message") \cup EmailInputs \cup SpamInputs
        \cup SanInputs

\* each pure function applied to the input drawn for it (none of them reads
\* the server's state)
InitFields ==
    /\ Started
    /\ NODE_ENV = "production" /\ transporter = "null"
    /\ probe \in ProbeInputs

NextFields ==
    \/ ApplyName
    \/ ApplyMessage
    \/ ApplyEmail
    \/ ApplySpam
    \/ ApplySanitize
    \/ ApplyCompose
    \/ ApplyValidate

SpecFields == InitFields /\ [][NextFields]_vars

ErrorOn(errors, field) == \E i \in 1..Len(errors) : errors[i].field = field

\* C11 as stated: every GET /api/health that reaches the route is answered
\* 200 with success:true and emailConfigured telling whether the dispatcher
\* is configured.
C11_Original ==
    (lastApi.method = "GET" /\ lastApi.path = "/api/health"
        /\ lastApi.allowed /\ lastApi.bodyOk) =>
        /\ lastApi.status = 200
        /\ lastApi.body = [success |-> TRUE,
                           emailConfigured |-> (transporter = "transport")]

\* C11, amended: a GET /api/health that reaches the route is answered 200 with
\* success:true and emailConfigured equal to whether the dispatcher is
\* configured when it is one of the first 100 of its address in the 15-minute
\* window; every further one in that window is answered 429
\* RATE_LIMIT_EXCEEDED.
C11_Health ==
    (lastApi.method = "GET" /\ lastApi.path = "/api/health"
        /\ lastApi.allowed /\ lastApi.bodyOk) =>
        LET n == apiStore[lastApi.addr].totalHits IN
        /\ n >= 1
        /\ IF n <= 100
           THEN /\ lastApi.status = 200
                /\ lastApi.body = [success |-> TRUE,
                                   emailConfigured |-> (transporter = "transport")]
           ELSE /\ lastApi.status = 429
                /\ lastApi.body = [success |-> FALSE, code |-> "RATE_LIMIT_EXCEEDED"]

\* the 100th health request of a window was answered 200 by a server without
\* dispatcher
C11_Witness ==
    /\ transporter = "null"
    /\ lastApi.route = "health" /\ lastApi.addr = 1
    /\ apiStore[1].totalHits = 100
    /\ lastApi.status = 200
    /\ lastApi.body = [success |-> TRUE, emailConfigured |-> FALSE]


\* a request that no middleware before the router ends and that matches
\* neither route
Unrouted(q) ==
    /\ q.method # ""
    /\ q.allowed /\ q.bodyOk
    /\ ~(q.method = "GET" /\ q.path \in {"/api/health", "/index.html"})

C13_NameLength ==
    (probe.fn = "name" /\ probe.done) =>
        (ErrorOn(probe.out, "name") <=> (probe.arg.n < 2 \/ probe.arg.n > 100))

\* a padded name of 100 letters passed
C13_Witness ==
    /\ probe.fn = "name" /\ probe.done
    /\ probe.arg = [lead |-> 1, n |-> 100, trail |-> 1]
    /\ probe.out = <<>>

\* C14: a message whose trimmed length is between 10 and 5000 gets no message
\* error; one of trimmed length 9, of 5001, or of any other length outside
\* that range gets a message error.
C14_MessageLength ==
    (probe.fn = "message" /\ probe.done) =>
        (ErrorOn(probe.out, "message") <=> (probe.arg.n < 10 \/ probe.arg.n > 5000))

\* a message of 9 letters and a leading blank, 10 characters in all, failed
C14_Witness ==
    /\ probe.fn = "message" /\ probe.done
    /\ probe.arg = [lead |-> 1, n |-> 9, trail |-> 0]
    /\ ErrorOn(probe.out, "message")


\* the address has no "." after an "@"
NoDotAfterAt(s) ==
    \A i \in 1..Len(s), j \in 1..Len(s) : (s[i] = "@" /\ i < j) => s[j] # "."

C16_SpamExact ==
    (probe.fn = "spam" /\ probe.done) => (probe.out <=> (probe.arg.cut = 0))

\* "xCLICK HEREx" was flagged
C16_Witness ==
    /\ probe.fn = "spam" /\ probe.done
    /\ SpamText(probe.arg) = <<"x", "C", "L", "I", "C", "K", " ", "H", "E", "R", "E", "x">>
    /\ probe.out


\* C17: the sanitizer's result for a text holds none of the raw characters
\* < > " ' and neither starts nor ends with whitespace, and a value that is no
\* text is returned unchanged.
C17_Sanitized ==
    (probe.fn = "sanitize" /\ probe.done) =>
        IF probe.arg = Undefined THEN probe.out = probe.arg
        ELSE /\ \A i \in 1..Len(probe.out) : probe.out[i] \notin {"<", ">", "\"", "'"}
             /\ probe.out # <<>> =>
                  probe.out[1] \notin Whitespace /\ probe.out[Len(probe.out)] \notin Whitespace


\* the fields as the handler reads them from req.body: trimmed and escaped by
\* the validation chains (the address trimmed and normalized)
Validated(sub) ==
    [name    |-> escape(Trim(sub.name)),
     email   |-> normalizeEmail(Trim(sub.email)),
     subject |-> IF sub.subject = Undefined THEN Undefined ELSE escape(Trim(sub.subject)),
     message |-> escape(Trim(sub.message))]

\* C18: the notification's subject line is "Portfolio Contact: " followed by
\* the validated submission's subject when that is not empty, and by
\* "New message from " and the name otherwise; the acknowledgement's subject
\* line is always "Thank you for contacting me!".
C18_Subjects ==
    (probe.fn = "mail" /\ probe.done) =>
        LET v == Validated(probe.arg)
            given == v.subject # Undefined /\ Len(v.subject) > 0
        IN  /\ probe.out.notif.subject =
                  IF given THEN <<"Portfolio Contact: ">> \o v.subject
                  ELSE <<"Portfolio Contact: ", "New message from ">> \o v.name
            /\ probe.out.ack.subject = <<"Thank you for contacting me!">>

\* a submission with an empty subject got the subject line with its name
C18_Witness ==
    /\ probe.fn = "mail" /\ probe.done
    /\ probe.arg.subject = <<>> /\ probe.arg.name = <<"J", "o">>
    /\ probe.out.notif.subject = <<"Portfolio Contact: ", "New message from ", "J", "o">>
    /\ probe.out.ack.subject = <<"Thank you for contacting me!">>

\* C19: every field value embedded in an HTML body, the notification's name,
\* address (twice), subject and message and the acknowledgement's name, is the
\* sanitizer's result for that field.
C19_Embedded ==
    (probe.fn = "mail" /\ probe.done) =>
        LET v == Validated(probe.arg)
            h == probe.out.notif.html
        IN  /\ h.name = sanitizeInput(v.name)
            /\ h.emailHref = sanitizeInput(v.email)
            /\ h.emailText = sanitizeInput(v.email)
            /\ h.subject \in {sanitizeInput(v.subject), sanitizeInput(<<"No subject">>)}
            /\ (v.subject # Undefined /\ v.subject # <<>>) => h.subject = sanitizeInput(v.subject)
            /\ \A i \in 1..Len(h.message) :
                  h.message[i] = IF sanitizeInput(v.message)[i] = "\n" THEN "<br>"
                                 ELSE sanitizeInput(v.message)[i]
            /\ Len(h.message) = Len(sanitizeInput(v.message))
            /\ probe.out.ack.html.name = sanitizeInput(v.name)

\* an address with an apostrophe was embedded with the apostrophe replaced
C19_Witness ==
    /\ probe.fn = "mail" /\ probe.done
    /\ probe.arg.email = <<"O", "'", "b", "@", "x", ".", "c", "o">>
    /\ probe.out.notif.html.emailHref =
          <<"o", "&", "#", "x", "2", "7", ";", "b", "@", "x", ".", "c", "o">>


C21_AckAfterNotif ==
    [][/\ \A r \in Slots :
             reqs'[r].nAck > reqs[r].nAck =>
                 /\ reqs[r].phase = "sending" /\ reqs[r].notif = "pending"
                 /\ reqs[r].nNotif = 1 /\ reqs[r].nAck = 0
                 /\ reqs'[r].notif = "ok" /\ reqs'[r].ack = "pending"
                 /\ reqs'[r].sub = reqs[r].sub /\ reqs'[r].addr = reqs[r].addr
       /\ \A q \in {reqs'[r] : r \in Slots} \cup {last'} :
             /\ q.nAck > 0 => q.notif = "ok"
             /\ q.notif \in {"none", "pending", "failed"} => q.nAck = 0 /\ q.ack = "none"
             /\ (Responded(q) /\ q.resp.status # 200) => q.nAck = 0 /\ q.ack = "none"]_vars

\* a request whose notification timed out ended without an acknowledgement
C21_Witness ==
    /\ last.notif = "failed" /\ last.err = "ETIMEDOUT" /\ last.nNotif = 1
    /\ last.nAck = 0 /\ last.ack = "none"
    /\ Is(last, 500, "EMAIL_CONNECTION_ERROR")

\* C22: the 200 is issued in the step that hands the acknowledgement over, so
\* a request whose acknowledgement is still pending has its one response
\* already; and once the notification was accepted the acknowledgement stays
\* handed over, pending or settled, whatever is responded.
C22_NoWait ==
    \A q \in Observed :
        /\ q.ack = "pending" =>
              /\ Responded(q) /\ q.nResp = 1
              /\ q.resp.status = 200 /\ q.resp.success
              /\ q.notif = "ok"
        /\ q.notif = "ok" => q.nAck = 1 /\ q.ack \in {"pending", "ok", "failed"}

\* both requests in flight are answered 200 while their acknowledgements pend
C22_Witness ==
    \A r \in Slots :
        /\ reqs[r].ack = "pending" /\ Responded(reqs[r])
        /\ reqs[r].resp.status = 200 /\ reqs[r].nResp = 1

\* C23: for each request the dispatcher is invoked at most once for the
\* notification and at most once for the acknowledgement, whatever the
\* outcomes, and a rejected notification ends the request: it is answered 500
\* and nothing of it stays in flight.
C23_NoRetry ==
    /\ \A q \in Observed : q.nNotif <= 1 /\ q.nAck <= 1
    /\ \A q \in Observed :
          q.notif = "failed" =>
              /\ Responded(q) /\ q.resp.status = 500 /\ q.nResp = 1
              /\ q.nNotif = 1 /\ q.nAck = 0
              /\ q = last
    /\ \A q \in Observed : q.ack = "failed" => q.nAck = 1 /\ q.nNotif = 1 /\ q = last
    /\ \A r \in Slots : reqs[r].notif # "failed" /\ reqs[r].ack # "failed"

\* a request whose acknowledgement failed is over with one send of each kind
C23_Witness ==
    /\ last.ack = "failed" /\ last.nAck = 1 /\ last.nNotif = 1 /\ last.logged = 1
    /\ \A r \in Slots : reqs[r].phase = "idle"


\* the field of the submission breaks its rule
Violates(sub, field) ==
    LET text(v) == IF v = Undefined THEN <<>> ELSE Trim(v) IN
    CASE field = "name"    -> Len(text(sub.name)) < 2 \/ Len(text(sub.name)) > 100
      [] field = "email"   -> ~isEmail(text(sub.email)) \/ Len(text(sub.email)) > 254
      [] field = "subject" -> sub.subject # Undefined /\ Len(text(sub.subject)) > 200
      [] field = "message" -> Len(text(sub.message)) < 10 \/ Len(text(sub.message)) > 5000

\* C24: the four fields are judged independently and every violation is
\* collected: the error list holds an error for a field exactly when that
\* field breaks its rule, however many other fields do.
C24_AllCollected ==
    (probe.fn = "validate" /\ probe.done) =>
        \A f \in FieldNames : ErrorOn(probe.out, f) <=> Violates(probe.arg, f)

\* a submission that breaks the rules of all four fields got an error for each
C24_Witness ==
    /\ probe.fn = "validate" /\ probe.done
    /\ \A f \in FieldNames : Violates(probe.arg, f) /\ ErrorOn(probe.out, f)


\* C25: whatever requests are in flight together, the notification of each is
\* addressed to the operator with reply-to the (trimmed, normalized) email of
\* its own submission, and its acknowledgement is addressed to that email and
\* greets the (sanitized) name of its own submission.
C25_OwnFields ==
    \A q \in Observed :
        LET own == Validated(Submissions[q.sub]) IN
        /\ q.nNotif > 0 =>
              /\ q.notifMail.to = "CONTACT_EMAIL"
              /\ q.notifMail.replyTo = own.email
        /\ q.nAck > 0 =>
              /\ q.ackMail.to = own.email
              /\ q.ackMail.greets = sanitizeInput(own.name)

\* two requests of different senders are in flight, each acknowledged to its
\* own sender
C25_Witness ==
    \E r1, r2 \in Slots :
        /\ reqs[r1].sub = 1 /\ reqs[r2].sub = 5
        /\ reqs[r1].ack = "pending" /\ reqs[r2].ack = "pending"
        /\ reqs[r1].ackMail.to = <<"j", "o", "@", "x", ".", "c", "o", "m">>
        /\ reqs[r2].ackMail.to = <<"a", "l", "@", "y", ".", "o", "r", "g">>
        /\ reqs[r2].ackMail.greets = <<"A", "l", "&", "#", "x", "2", "7", ";", "s">>
        /\ reqs[r2].notifMail.replyTo = <<"a", "l", "@", "y", ".", "o", "r", "g">>


\* C26: whether there is a dispatcher is settled at startup: no step, be it a
\* request, a send that fails or the startup verification failing, changes it,
\* so two successive health responses carry the same emailConfigured, which
\* tells whether the dispatcher was configured; and after a failed
\* verification a valid submission is still handed to the dispatcher, never
\* answered 503.
C26_FixedAtStartup ==
    [][/\ transporter' = transporter
       /\ (lastApi'.route = "health" /\ lastApi'.status = 200) =>
              lastApi'.body.emailConfigured = (transporter = "transport")
       /\ (lastApi.route = "health" /\ lastApi.status = 200
             /\ lastApi'.route = "health" /\ lastApi'.status = 200) =>
              lastApi'.body.emailConfigured = lastApi.body.emailConfigured
       /\ verified' = "failed" =>
              /\ transporter' = "transport"
              /\ ~(Responded(last') /\ last'.resp.status = 503)
              /\ \A r \in Slots :
                    (verified = "failed" /\ reqs[r].phase = "idle"
                        /\ reqs'[r].phase # "idle") =>
                        reqs'[r].phase = "sending" /\ reqs'[r].nNotif = 1]_vars

\* after the verification failed a health response says the dispatcher is
\* configured and a submission was sent and answered 200
C26_Witness ==
    /\ verified = "failed" /\ transporter = "transport"
    /\ lastApi.route = "health" /\ lastApi.body = [success |-> TRUE, emailConfigured |-> TRUE]
    /\ last.notif = "ok" /\ last.resp.status = 200


\* the step receives a POST to the contact endpoint, which after it is q: an
\* idle slot takes it up for sending, or it is answered at once
ContactPost(q) ==
    \/ reqs' = reqs /\ last' # last /\ q = last'
    \/ \E r \in Slots : /\ reqs[r].phase = "idle" /\ reqs'[r].phase = "sending"
                        /\ q = reqs'[r]

ObservedNext == {reqs'[r] : r \in Slots} \cup {last'}

\* the count of address a goes up by one, or to 1 when a's window has elapsed
Counted(a) ==
    contactStore'[a].totalHits =
        IF contactStore[a].totalHits > 0 /\ now < contactStore[a].resetTime
        THEN contactStore[a].totalHits + 1 ELSE 1

C28_Independent ==
    [][\A a \in Addrs :
          /\ contactStore'[a] # contactStore[a] =>
                /\ reqs' = reqs /\ last'.addr = a /\ lastApi' = lastApi
                /\ apiStore' = apiStore
                /\ \A y \in Addrs \ {a} : contactStore'[y] = contactStore[y]
                /\ Counted(a)
                /\ Is(last', 429, "RATE_LIMIT_EXCEEDED")
                      <=> contactStore[a].totalHits >= RATE_LIMIT_MAX
          /\ apiStore'[a] # apiStore[a] =>
                /\ lastApi'.addr = a /\ lastApi'.route = "health" /\ last' = last
                /\ contactStore' = contactStore /\ tally' = tally
                /\ \A y \in Addrs \ {a} : apiStore'[y] = apiStore[y]
                /\ apiStore'[a].totalHits = apiStore[a].totalHits + 1
                /\ lastApi'.status = 200]_vars

\* address 1 is over its contact limit and was refused, the other address made
\* two contact requests, the second one answered by the handler, and both made
\* health requests
C28_Witness ==
    /\ contactStore[1].totalHits = RATE_LIMIT_MAX + 1 /\ tally[1].refused = 1
    /\ contactStore[NumAddrs].totalHits = 2
    /\ last.addr = NumAddrs /\ last.handled /\ Is(last, 400, "VALIDATION_ERROR")
    /\ apiStore[1].totalHits = MaxApiHits /\ apiStore[NumAddrs].totalHits = 1
    /\ lastApi.addr = 1 /\ lastApi.status = 200


\* C29: when no hide timer is pending, a card carries 'hidden' exactly when
\* the filter clicked last is not 'all' and is not the card's category.
C29_Settled ==
    (gallery.filter # "none" /\ gallery.timers = <<>>) =>
        \A c \in Cards :
            gallery.hidden[c] <=>
                (gallery.filter # "all" /\ gallery.filter # CardCategory(c))


\* the submit button is enabled and shows its original content
ButtonReady == ~form.btn.disabled /\ form.btn.innerHTML = "original"

\* C30: while a request of the form is in flight the submit button is disabled
\* and shows the sending content, so there is never more than one request in
\* flight; when the request ends in a failure (an error code of the server, a
\* failed fetch, a body that is no JSON) the same step enables the button with
\* its original content; when it ends in success the button stays disabled
\* until the timer set then fires, and it does fire: the button is in the end
\* enabled again with its original content.
C30_Button ==
    /\ [](form.inFlight <= 1)
    /\ [](form.inFlight = 1 => form.btn.disabled /\ form.btn.innerHTML = "sending")
    /\ [](~form.btn.disabled => form.btn.innerHTML = "original")
    /\ [][form'.inFlight < form.inFlight =>
            IF form'.resetTimers > form.resetTimers
            THEN form'.btn.disabled /\ form'.btn.innerHTML = "sent"
            ELSE ButtonReady']_vars
    /\ [][(form.btn.disabled /\ form.inFlight = 0 /\ form'.btn # form.btn) =>
            ButtonReady']_vars
    /\ (form.inFlight = 0) ~> ButtonReady

\* a submission succeeded, the form was reset, the timer fired and the button
\* is enabled with its original content, kept in the dataset meanwhile
C30_Witness ==
    /\ form.cleared /\ form.inFlight = 0 /\ form.resetTimers = 0
    /\ form.btn.dataset = "original"
    /\ ButtonReady

====
